---- MODULE Spec2Model ----
(***************************************************************************)
(* Model of blobmanager.RedisBlobManager (src/blobmanager.py): a store of  *)
(* fixed-size blocks, deduplicated by SHA-1, whose metadata live in Redis  *)
(* and whose bytes live in append-only blob files.                         *)
(*                                                                         *)
(* Library behaviour the model relies on (redis-py 2.x, the StrictRedis    *)
(* client the source instantiates; CPython file objects):                  *)
(*  - a key argument is sent as str(value), so exists(block_id) asks for   *)
(*    the key "<id>" while the records are kept under "block:<id>";        *)
(*  - StrictRedis.transaction(func, *watches) issues WATCH, calls          *)
(*    func(pipe) and then pipe.execute(); after WATCH the pipeline runs    *)
(*    every command immediately until pipe.multi() is called, which the    *)
(*    callback of the source never does, and execute() of an empty command *)
(*    stack returns at once; so each command of put_block_transaction is   *)
(*    a separate atomic step on the server;                                *)
(*  - a pipeline() without WATCH buffers its commands and runs them in one *)
(*    MULTI/EXEC;                                                          *)
(*  - open(path, 'ba') creates the file if needed and writes at its end;   *)
(*    read(n) past the end of a file returns the bytes there are.          *)
(* The blob directory may stop being writable (removed, full, read-only);  *)
(* from then on open(path, 'ba') raises OSError.                           *)
(* Redis keeps integers as decimal strings and int() parses them back; on  *)
(* the naturals of the model the two cancel, so the cursor is kept as      *)
(* naturals.  numpy scalars are kept as their value plus the name of their *)
(* type where the source looks at the type.                                *)
(***************************************************************************)
EXTENDS Integers, Sequences, FiniteSets, TLC

\* ------------------------------------------------------------------ bounds
MaxId        == 2      \* block ids are 1..MaxId
MaxByte      == 2      \* byte values are 1..MaxByte
MaxBlockSize == 1      \* block_size ranges over 1..MaxBlockSize
MaxBlobSize  == 2      \* blob_size ranges over 1..MaxBlobSize
MaxInits     == 2      \* init calls that reach the server, per behaviour
NumProcs     == 2      \* concurrent callers of put_block
MaxContent   == 3      \* distinct contents put in a run that fills blobs

Ids       == 1..MaxId
Bytes     == 1..MaxByte
\* The data offered to put_block: n copies of one byte, as in the tests
\* (bytearray([1 for x in range(8)])), of every length up to MaxBlockSize.
ByteSeqs  == {[i \in 1..n |-> b] : n \in 0..MaxBlockSize, b \in Bytes}
IdKinds   == {"uint64", "int"}
SizeKinds == {"uint32", "int"}
BufKinds  == {"bytearray", "list"}

\* ------------------------------------------------------- outcome of a call
\* A call either returns a value (exc = "") or lets an exception reach the
\* caller (exc names its class; ret is then meaningless).
Return(n) == [exc |-> "", ret |-> n]
Raise(e)  == [exc |-> e, ret |-> -1]

\* The inner function of return_handler: what the decorator was written
\* to do with the outcome of f.
wrapper(outcome) ==
    IF outcome.exc = "" THEN outcome
    ELSE IF outcome.exc = "ValueError" THEN Return(1)
    ELSE IF outcome.exc = "AttributeError" THEN Return(2)
    ELSE IF outcome.exc = "IndexError" THEN Return(3)
    ELSE Return(100)

\* return_handler is itself decorated with functools.wraps, so the name is
\* bound to partial(update_wrapper, wrapped=<the function>); applied to a
\* method f it copies __name__, __doc__, ... onto f and returns f.  The
\* wrapper above is never built and the outcome of f is the outcome of the
\* public method.
return_handler(outcome) == outcome

\* -------------------------------------------------------------- the hasher
\* hashlib.sha1(block_data).hexdigest(): a digest of the bytes, taken to be
\* collision free; here the bytes read as digits after a leading 1, in a
\* base above every byte value in use.
RECURSIVE sha1(_)
sha1(block_data) ==
    IF block_data = <<>> THEN 1
    ELSE sha1(SubSeq(block_data, 1, Len(block_data) - 1))
            * (MaxByte + MaxContent + 1)
         + block_data[Len(block_data)]

\* --------------------------------------------------------------- Redis keys
\* A key is <<prefix, n>>: 'block:' + str(block_id), 'hash:' + block_hash,
\* and str(block_id) alone, which has the empty prefix.
KeyNextBlob      == <<"next_blob", 0>>
KeyNextBlobIndex == <<"next_blob_index", 0>>
KeyHashes        == <<"hashes", 0>>
BlockKey(block_id)  == <<"block:", block_id>>
HashKey(block_hash) == <<"hash:", block_hash>>
StrKey(block_id)    == <<"", block_id>>

\* ----------------------------------------------------------- Redis commands
\* r is the database: a function from the keys that exist to their values.
exists(r, k)    == k \in DOMAIN r
set(r, k, v)    == [x \in DOMAIN r \cup {k} |-> IF x = k THEN v ELSE r[x]]
setnx(r, k, v)  == IF k \in DOMAIN r THEN r ELSE set(r, k, v)
incr(r, k)      == set(r, k, (IF k \in DOMAIN r THEN r[k] ELSE 0) + 1)
sadd(r, k, m)   == set(r, k, (IF k \in DOMAIN r THEN r[k] ELSE {}) \cup {m})
sismember(r, k, m) == k \in DOMAIN r /\ m \in r[k]
rpush(r, k, vs) == set(r, k, (IF k \in DOMAIN r THEN r[k] ELSE <<>>) \o vs)
lindex(r, k, i) == r[k][i + 1]
flushall(r)     == [x \in {} |-> 0]

\* The allocation cursor: the values of 'next_blob' and 'next_blob_index',
\* <<>> while either key is missing.
Cursor(r) ==
    IF KeyNextBlob \in DOMAIN r /\ KeyNextBlobIndex \in DOMAIN r
    THEN <<r[KeyNextBlob], r[KeyNextBlobIndex]>> ELSE <<>>

\* ------------------------------------------------------------- blob files
\* fs is the blob directory: a function from the blob numbers that have a
\* file to the bytes of the file.
Min(a, b) == IF a < b THEN a ELSE b

\* with open(path, 'ba') as fd: fd.write(block_data)
append(fs, blob, block_data) ==
    [b \in DOMAIN fs \cup {blob} |->
        IF b = blob
        THEN (IF blob \in DOMAIN fs THEN fs[blob] ELSE <<>>) \o block_data
        ELSE fs[b]]

\* fd.seek(int(self.block_size * blob_index)); fd.read(self.block_size)
read_at(fs, blob, size, blob_index) ==
    SubSeq(fs[blob], size * blob_index + 1,
           Min(size * blob_index + size, Len(fs[blob])))

\* -------------------------------------------------------------------- state
VARIABLES
    attrs,       \* the attributes set on the manager object (self)
    block_size,  \* self.block_size, meaningful when "block_size" \in attrs
    blob_size,   \* self.blob_size, meaningful when "blob_size" \in attrs
    redis,       \* the Redis database
    files,       \* the blob files under blob_dir
    writable,    \* blob_dir can be written
    last,        \* history: the latest call and its outcome
    okput,       \* history: per block id, the data of the latest put_block
                 \* that returned 0 since the latest init (at most one)
    inits,       \* history: the init calls that reached the server
    callers      \* the concurrent callers: where each is in put_block and
                 \* the values of its arguments and local variables

vars == <<attrs, block_size, blob_size, redis, files, writable,
          last, okput, inits, callers>>

NoCall == [op |-> "none", res |-> Return(0), out |-> <<>>, alloc |-> FALSE]

Procs == 1..NumProcs

\* blob = blob_index = None: the nonlocal variables of _put_block_to_blob
\* before the transaction has set them.
None == -1

\* A caller that has not called yet.
Idle ==
    [pc |-> "idle", block_id |-> 0, block_data |-> <<>>, block_hash |-> 0,
     blob |-> None, blob_index |-> None, res |-> Return(0)]

\* The state after RedisBlobManager(): no configuration, no client; the
\* server and the blob directory are empty.
Init ==
    /\ attrs = {}
    /\ block_size = 0
    /\ blob_size = 0
    /\ redis = flushall(<<>>)
    /\ files = [b \in {} |-> <<>>]
    /\ writable = TRUE
    /\ last = NoCall
    /\ okput = [i \in Ids |-> {}]
    /\ inits = 0
    /\ callers = [p \in Procs |-> Idle]

\* ---------------------------------------------------------------------- init
\* BaseBlobManager.init: the exception it raises, "" when it returns.
BaseBlobManager_init(k1, k2) ==
    IF k1 # "uint64" /\ k2 # "uint32" THEN "ValueError" ELSE ""

\* The body of RedisBlobManager.init(block_size, blob_size), k1 and k2
\* being the types of the two arguments: its outcome, the attributes of
\* the manager and the database it leaves.
init_body(k1, size, k2, capacity) ==
    LET e == BaseBlobManager_init(k1, k2) IN
    IF e # ""
    THEN [res |-> Raise(e), attrs |-> attrs, block_size |-> block_size,
          blob_size |-> blob_size, redis |-> redis]
    ELSE [res |-> Return(0),
          attrs |-> {"block_size", "blob_size", "redis_client"},
          block_size |-> size, blob_size |-> capacity,
          redis |-> setnx(setnx(flushall(redis), KeyNextBlob, 0),
                          KeyNextBlobIndex, 0)]

\* The public method: the body under @return_handler.
init_call(k1, size, k2, capacity) ==
    LET b == init_body(k1, size, k2, capacity) IN
    [b EXCEPT !.res = return_handler(b.res)]

init(k1, size, k2, capacity) ==
    LET c == init_call(k1, size, k2, capacity) IN
    /\ attrs' = c.attrs
    /\ block_size' = c.block_size
    /\ blob_size' = c.blob_size
    /\ redis' = c.redis
    /\ last' = [NoCall EXCEPT !.op = "init", !.res = c.res]
    /\ inits' = IF c.res = Return(0) THEN inits + 1 ELSE inits
    /\ okput' = IF c.res = Return(0) THEN [i \in Ids |-> {}] ELSE okput
    /\ UNCHANGED <<files, writable, callers>>

\* ----------------------------------------------------------------- put_block
\* BaseBlobManager.put_block: the exception it raises, "" when it returns.
BaseBlobManager_put_block(k1, k2, block_data) ==
    IF k1 # "uint64" /\ k2 # "bytearray" THEN "ValueError"
    ELSE IF "block_size" \notin attrs THEN "AttributeError"
    ELSE IF Len(block_data) # block_size THEN "AttributeError"
    ELSE ""

\* advance_cursor with the move to the next blob left out of the wrap.
advance_cursor_no_incr(r, blob_index) ==
    IF blob_index + 1 >= blob_size
    THEN set(r, KeyNextBlobIndex, 0)
    ELSE incr(r, KeyNextBlobIndex)

\* The cursor update of put_block_transaction, from the values read.
advance_cursor(r, blob_index) ==
    IF blob_index + 1 >= blob_size
    THEN set(incr(r, KeyNextBlob), KeyNextBlobIndex, 0)
    ELSE incr(r, KeyNextBlobIndex)

\* record_block with the two parts of the location pushed in the other order.
record_block_swapped(r, block_id, block_hash, blob, blob_index) ==
    rpush(sadd(set(r, BlockKey(block_id), block_hash), KeyHashes, block_hash),
          HashKey(block_hash), <<blob_index, blob>>)

\* The three writes that end put_block_transaction.
record_block(r, block_id, block_hash, blob, blob_index) ==
    rpush(sadd(set(r, BlockKey(block_id), block_hash), KeyHashes, block_hash),
          HashKey(block_hash), <<blob, blob_index>>)

\* put_block_transaction(pipe), run without interference.
put_block_transaction(r, block_id, block_hash) ==
    LET blob       == r[KeyNextBlob]
        blob_index == r[KeyNextBlobIndex]
    IN  record_block(advance_cursor(r, blob_index), block_id, block_hash,
                     blob, blob_index)

\* is_known asking for a set that is never written ('hash' for 'hashes').
is_known_wrong_set(r, block_hash) == sismember(r, <<"hash", 0>>, block_hash)

\* The membership test that selects the branch of put_block.
is_known(r, block_hash) == sismember(r, KeyHashes, block_hash)

\* The body of RedisBlobManager.put_block run as one sequential call, k1
\* and k2 being the types of the two arguments: its outcome, the database
\* and the blobs it leaves, and whether it took a slot from the cursor.
put_block_body(k1, block_id, k2, block_data) ==
    LET e          == BaseBlobManager_put_block(k1, k2, block_data)
        block_hash == sha1(block_data)
        same(x)    == [res |-> Raise(x), redis |-> redis, files |-> files,
                       alloc |-> FALSE]
    IN  IF e # "" THEN same(e)
        ELSE IF exists(redis, StrKey(block_id)) THEN same("IndexError")
        ELSE IF k2 # "bytearray" THEN same("TypeError")
        ELSE IF is_known(redis, block_hash)
        THEN [res |-> Return(0),
              redis |-> set(redis, BlockKey(block_id), block_hash),
              files |-> files, alloc |-> FALSE]
        ELSE IF ~exists(redis, KeyNextBlob) \/ ~exists(redis, KeyNextBlobIndex)
        THEN same("TypeError")
        ELSE LET r == put_block_transaction(redis, block_id, block_hash) IN
             IF writable
             THEN [res |-> Return(0), redis |-> r,
                   files |-> append(files, redis[KeyNextBlob], block_data),
                   alloc |-> TRUE]
             ELSE [res |-> Raise("OSError"), redis |-> r, files |-> files,
                   alloc |-> TRUE]

\* The public method: the body under @return_handler.
put_block_call(k1, block_id, k2, block_data) ==
    LET b == put_block_body(k1, block_id, k2, block_data) IN
    [b EXCEPT !.res = return_handler(b.res)]

put_block(k1, block_id, k2, block_data) ==
    LET c == put_block_call(k1, block_id, k2, block_data) IN
    /\ redis' = c.redis
    /\ files' = c.files
    /\ last' = [NoCall EXCEPT !.op = "put_block", !.res = c.res,
                              !.alloc = c.alloc]
    /\ okput' = IF c.res = Return(0)
                THEN [okput EXCEPT ![block_id] = {block_data}]
                ELSE okput
    /\ UNCHANGED <<attrs, block_size, blob_size, writable, inits, callers>>

\* ----------------------------------------------------------------- get_block
\* BaseBlobManager.get_block: the exception it raises, "" when it returns.
BaseBlobManager_get_block(k1, k2) ==
    IF k1 # "uint64" /\ k2 # "bytearray" THEN "ValueError" ELSE ""

\* The body of RedisBlobManager.get_block: its outcome and the buffer it
\* leaves, out being the content of block_data at the call.
get_block_body(k1, block_id, k2, out) ==
    LET e       == BaseBlobManager_get_block(k1, k2)
        same(x) == [res |-> Raise(x), out |-> out]
    IN  IF e # "" THEN same(e)
        ELSE IF "redis_client" \notin attrs THEN same("AttributeError")
        ELSE IF ~exists(redis, BlockKey(block_id)) THEN same("KeyError")
        ELSE LET block_hash == redis[BlockKey(block_id)] IN
             IF ~exists(redis, HashKey(block_hash)) THEN same("TypeError")
             ELSE LET blob       == lindex(redis, HashKey(block_hash), 0)
                      blob_index == lindex(redis, HashKey(block_hash), 1)
                  IN  IF blob \notin DOMAIN files
                      THEN same("FileNotFoundError")
                      ELSE [res |-> Return(0),
                            out |-> out \o read_at(files, blob, block_size,
                                                   blob_index)]

\* The public method: the body under @return_handler.
get_block_call(k1, block_id, k2, out) ==
    LET b == get_block_body(k1, block_id, k2, out) IN
    [b EXCEPT !.res = return_handler(b.res)]

get_block(k1, block_id, k2, out) ==
    LET c == get_block_call(k1, block_id, k2, out) IN
    /\ last' = [NoCall EXCEPT !.op = "get_block", !.res = c.res,
                              !.out = c.out]
    /\ UNCHANGED <<attrs, block_size, blob_size, redis, files, writable,
                   okput, inits, callers>>

\* ------------------------------------------------------------ the environment
\* The blob directory stops being writable.
blob_dir_fails ==
    /\ writable
    /\ writable' = FALSE
    /\ UNCHANGED <<attrs, block_size, blob_size, redis, files,
                   last, okput, inits, callers>>

\* -------------------------------------------------------- sequential callers
\* The buffers offered to get_block: empty, and holding one byte.
OutSeqs == {<<>>, <<1>>}

AnyPut ==
    \E k1 \in IdKinds, block_id \in Ids, k2 \in BufKinds,
       block_data \in ByteSeqs :
        put_block(k1, block_id, k2, block_data)

AnyGet ==
    \E k1 \in IdKinds, block_id \in Ids, k2 \in BufKinds, out \in OutSeqs :
        get_block(k1, block_id, k2, out)

AnyInit ==
    \E k1 \in IdKinds, size \in 1..MaxBlockSize,
       k2 \in SizeKinds, capacity \in 1..MaxBlobSize :
        init(k1, size, k2, capacity)

\* Any sequence of calls on one manager, init among them, while the blob
\* directory may fail.
Next ==
    \/ inits < MaxInits /\ AnyInit
    \/ AnyPut
    \/ AnyGet
    \/ blob_dir_fails

Spec == Init /\ [][Next]_vars

\* A sequential run that starts from init on the empty store: the calls
\* that follow the init that reaches the server are puts and gets, and the
\* blob directory stays writable.
NextRun ==
    \/ inits = 0 /\ AnyInit
    \/ AnyPut
    \/ AnyGet

SpecRun == Init /\ [][NextRun]_vars

FirstInit ==
    /\ inits = 0
    /\ \E size \in 1..MaxBlockSize, capacity \in 1..MaxBlobSize :
           init("uint64", size, "uint32", capacity)

\* A put_block with well-typed arguments of the configured length: a
\* block of block_size copies of one byte, as in the tests.
PutContent ==
    /\ "block_size" \in attrs
    /\ \E block_id \in Ids, b \in 1..MaxContent :
           put_block("uint64", block_id, "bytearray",
                     [i \in 1..block_size |-> b])

\* A sequential run that fills blobs: one well-typed init on the empty
\* store, then well-typed puts of up to MaxContent distinct contents.
NextFill ==
    \/ FirstInit
    \/ PutContent

SpecFill == Init /\ [][NextFill]_vars

\* init given any value its argument types hold, zero among them.
AnyInitZero ==
    \E k1 \in IdKinds, size \in 0..MaxBlockSize,
       k2 \in SizeKinds, capacity \in 0..MaxBlobSize :
        init(k1, size, k2, capacity)

\* A sequential run whose init may be given zero for either size.
NextZero ==
    \/ inits = 0 /\ AnyInitZero
    \/ AnyPut
    \/ AnyGet

SpecZero == Init /\ [][NextZero]_vars

\* -------------------------------------------------------- concurrent callers
\* Callers of put_block on one initialised manager, each with well-typed
\* arguments of the configured length; one step per Redis command or file
\* operation, in the order of the source.
histvars == <<last, okput, inits, writable>>
confvars == <<attrs, block_size, blob_size>>

goto(p, label) == [callers EXCEPT ![p].pc = label]

\* put_block up to its first command: the checks of the base class and
\* exists(block_id).
put_block_exists(p, block_id, block_data) ==
    /\ callers[p].pc = "idle"
    /\ "redis_client" \in attrs
    /\ LET e == BaseBlobManager_put_block("uint64", "bytearray", block_data)
           c == [callers[p] EXCEPT !.block_id = block_id,
                                   !.block_data = block_data]
       IN  callers' =
             [callers EXCEPT ![p] =
                IF e # ""
                THEN [c EXCEPT !.pc = "done", !.res = return_handler(Raise(e))]
                ELSE IF exists(redis, StrKey(block_id))
                THEN [c EXCEPT !.pc = "done",
                               !.res = return_handler(Raise("IndexError"))]
                ELSE [c EXCEPT !.pc = "sismember"]]
    /\ UNCHANGED <<redis, files, histvars, confvars>>

\* block_hash = sha1(...); sismember('hashes', block_hash)
put_block_sismember(p) ==
    /\ callers[p].pc = "sismember"
    /\ LET block_hash == sha1(callers[p].block_data) IN
       callers' = [callers EXCEPT
                     ![p].block_hash = block_hash,
                     ![p].pc = IF is_known(redis, block_hash)
                               THEN "set" ELSE "get_next_blob"]
    /\ UNCHANGED <<redis, files, histvars, confvars>>

\* set('block:' + str(block_id), block_hash); return 0
put_block_set(p) ==
    /\ callers[p].pc = "set"
    /\ redis' = set(redis, BlockKey(callers[p].block_id), callers[p].block_hash)
    /\ callers' = [callers EXCEPT ![p].pc = "done",
                                  ![p].res = return_handler(Return(0))]
    /\ UNCHANGED <<files, histvars, confvars>>

\* blob = int(pipe.get('next_blob'))
transaction_get_next_blob(p) ==
    /\ callers[p].pc = "get_next_blob"
    /\ callers' =
         IF exists(redis, KeyNextBlob)
         THEN [callers EXCEPT ![p].blob = redis[KeyNextBlob],
                              ![p].pc = "get_next_blob_index"]
         ELSE [callers EXCEPT ![p].pc = "done",
                              ![p].res = return_handler(Raise("TypeError"))]
    /\ UNCHANGED <<redis, files, histvars, confvars>>

\* blob_index = int(pipe.get('next_blob_index')), and the test that
\* selects the cursor update
transaction_get_next_blob_index(p) ==
    /\ callers[p].pc = "get_next_blob_index"
    /\ callers' =
         IF exists(redis, KeyNextBlobIndex)
         THEN [callers EXCEPT
                 ![p].blob_index = redis[KeyNextBlobIndex],
                 ![p].pc = IF redis[KeyNextBlobIndex] + 1 >= blob_size
                           THEN "incr_next_blob" ELSE "incr_next_blob_index"]
         ELSE [callers EXCEPT ![p].pc = "done",
                              ![p].res = return_handler(Raise("TypeError"))]
    /\ UNCHANGED <<redis, files, histvars, confvars>>

\* pipe.incr('next_blob')
transaction_incr_next_blob(p) ==
    /\ callers[p].pc = "incr_next_blob"
    /\ redis' = incr(redis, KeyNextBlob)
    /\ callers' = goto(p, "set_next_blob_index")
    /\ UNCHANGED <<files, histvars, confvars>>

\* pipe.set('next_blob_index', 0)
transaction_set_next_blob_index(p) ==
    /\ callers[p].pc = "set_next_blob_index"
    /\ redis' = set(redis, KeyNextBlobIndex, 0)
    /\ callers' = goto(p, "set_block")
    /\ UNCHANGED <<files, histvars, confvars>>

\* pipe.incr('next_blob_index')
transaction_incr_next_blob_index(p) ==
    /\ callers[p].pc = "incr_next_blob_index"
    /\ redis' = incr(redis, KeyNextBlobIndex)
    /\ callers' = goto(p, "set_block")
    /\ UNCHANGED <<files, histvars, confvars>>

\* pipe.set('block:' + str(block_id), block_hash)
transaction_set_block(p) ==
    /\ callers[p].pc = "set_block"
    /\ redis' = set(redis, BlockKey(callers[p].block_id), callers[p].block_hash)
    /\ callers' = goto(p, "sadd")
    /\ UNCHANGED <<files, histvars, confvars>>

\* pipe.sadd('hashes', block_hash)
transaction_sadd(p) ==
    /\ callers[p].pc = "sadd"
    /\ redis' = sadd(redis, KeyHashes, callers[p].block_hash)
    /\ callers' = goto(p, "rpush")
    /\ UNCHANGED <<files, histvars, confvars>>

\* pipe.rpush('hash:' + block_hash, blob, blob_index); pipe.execute() of
\* the empty command stack then returns
transaction_rpush(p) ==
    /\ callers[p].pc = "rpush"
    /\ redis' = rpush(redis, HashKey(callers[p].block_hash),
                      <<callers[p].blob, callers[p].blob_index>>)
    /\ callers' = goto(p, "write")
    /\ UNCHANGED <<files, histvars, confvars>>

\* with open(self._get_file_path(blob), 'ba') as fd: fd.write(block_data);
\* return 0
put_block_write(p) ==
    /\ callers[p].pc = "write"
    /\ files' = IF writable
                THEN append(files, callers[p].blob, callers[p].block_data)
                ELSE files
    /\ callers' = [callers EXCEPT
                     ![p].pc = "done",
                     ![p].res = return_handler(IF writable THEN Return(0)
                                               ELSE Raise("OSError"))]
    /\ UNCHANGED <<redis, histvars, confvars>>

\* A get_block by one more caller while the puts are under way, with
\* well-typed arguments and an empty buffer; its reads (the block record,
\* the location, the file) follow one another without a step of a put in
\* between.
get_block_during_puts ==
    /\ "redis_client" \in attrs
    /\ \E block_id \in Ids :
           get_block("uint64", block_id, "bytearray", <<>>)

NextConc ==
    \/ FirstInit
    \/ get_block_during_puts
    \/ \E p \in Procs, block_id \in Ids, block_data \in ByteSeqs :
           put_block_exists(p, block_id, block_data)
    \/ \E p \in Procs : put_block_sismember(p)
    \/ \E p \in Procs : put_block_set(p)
    \/ \E p \in Procs : transaction_get_next_blob(p)
    \/ \E p \in Procs : transaction_get_next_blob_index(p)
    \/ \E p \in Procs : transaction_incr_next_blob(p)
    \/ \E p \in Procs : transaction_set_next_blob_index(p)
    \/ \E p \in Procs : transaction_incr_next_blob_index(p)
    \/ \E p \in Procs : transaction_set_block(p)
    \/ \E p \in Procs : transaction_sadd(p)
    \/ \E p \in Procs : transaction_rpush(p)
    \/ \E p \in Procs : put_block_write(p)

SpecConc == Init /\ [][NextConc]_vars

\* The steps of caller p once it is inside put_block.
put_block_step(p) ==
    \/ put_block_sismember(p)
    \/ put_block_set(p)
    \/ transaction_get_next_blob(p)
    \/ transaction_get_next_blob_index(p)
    \/ transaction_incr_next_blob(p)
    \/ transaction_set_next_blob_index(p)
    \/ transaction_incr_next_blob_index(p)
    \/ transaction_set_block(p)
    \/ transaction_sadd(p)
    \/ transaction_rpush(p)
    \/ put_block_write(p)

\* The concurrent callers under a scheduler that lets every caller that is
\* inside put_block run again: each is a thread or process of its own and
\* none of its steps waits for another caller.
FairConc == SpecConc /\ \A p \in Procs : WF_vars(put_block_step(p))

\* ==================================================================== claims
\* The caller has read a location from the cursor.
Placed(p) == callers[p].blob # None /\ callers[p].blob_index # None

\* The number of slots the cursor has passed in a run with one configuration.
allocated(r) == r[KeyNextBlob] * blob_size + r[KeyNextBlobIndex]

\* The keys of the locations of the contents stored.
hashkeys(r) == {k \in DOMAIN r : k[1] = "hash:"}

\* C1 (round trip, SpecRun): in a sequential run that starts from init on
\* the empty store, at any later point and for every id under which a
\* put_block has returned 0, a get_block with that id and an empty
\* bytearray returns 0 and leaves in the buffer exactly the data of that
\* put (of the latest one, if several returned 0), whatever was put under
\* other ids.
RoundTrip ==
    \A block_id \in Ids, block_data \in ByteSeqs :
        (writable /\ okput[block_id] = {block_data})
        => get_block_call("uint64", block_id, "bytearray", <<>>)
               = [res |-> Return(0), out |-> block_data]

\* Witness of C1: a get_block has returned 0 with the data of a block that
\* lies in the second blob, while another id holds other content.
RoundTripWitness ==
    /\ writable
    /\ last.op = "get_block"
    /\ last.res = Return(0)
    /\ \E block_id \in Ids :
          /\ okput[block_id] = {last.out}
          /\ get_block_call("uint64", block_id, "bytearray", <<>>).out = last.out
          /\ lindex(redis, HashKey(redis[BlockKey(block_id)]), 0) = 1
          /\ \E other \in Ids \ {block_id} :
                okput[other] # {} /\ okput[other] # {last.out}

\* C2 (duplicate id rejection), as claimed: a put_block with well-typed
\* arguments of the configured length, for an id under which a put_block
\* has already returned 0, returns 3 and changes neither the database
\* (records, hash entries, cursor) nor the blobs.
DuplicateIdRejected ==
    [][\A block_id \in Ids, block_data \in ByteSeqs :
          (/\ put_block("uint64", block_id, "bytearray", block_data)
           /\ okput[block_id] # {}
           /\ Len(block_data) = block_size)
          => (/\ last'.res = Return(3)
              /\ redis' = redis
              /\ files' = files)]_vars

\* C3 (unknown id), as claimed: on an initialised manager a well-typed
\* get_block for an id without a block record returns 3 and leaves the
\* buffer and the store as they were.
UnknownIdReturns3 ==
    [][\A block_id \in Ids, out \in OutSeqs :
          (/\ get_block("uint64", block_id, "bytearray", out)
           /\ "redis_client" \in attrs
           /\ ~exists(redis, BlockKey(block_id)))
          => (/\ last'.res = Return(3)
              /\ last'.out = out
              /\ redis' = redis
              /\ files' = files)]_vars

\* C4 (size validation), as claimed: on an initialised manager a well-typed
\* put_block whose data has not the configured length returns 2 and changes
\* neither the database nor the blobs.
SizeMismatchReturns2 ==
    [][\A block_id \in Ids, block_data \in ByteSeqs :
          (/\ put_block("uint64", block_id, "bytearray", block_data)
           /\ "block_size" \in attrs
           /\ Len(block_data) # block_size)
          => (/\ last'.res = Return(2)
              /\ redis' = redis
              /\ files' = files)]_vars

\* C5 (dedup identity, SpecRun): while id1 holds data put by a put_block
\* that returned 0, a put_block of the same data under another id returns
\* 0, gives the two ids the same block record, with one location, appends
\* nothing to any blob and leaves the cursor where it is; and the cursor
\* has moved once for each distinct content stored, however many ids
\* hold it.
DedupIdentity ==
    /\ \A id1, id2 \in Ids, block_data \in ByteSeqs :
          (id1 # id2 /\ okput[id1] = {block_data})
          => LET c == put_block_call("uint64", id2, "bytearray", block_data)
             IN  /\ c.res = Return(0)
                 /\ ~c.alloc
                 /\ c.redis[BlockKey(id2)] = c.redis[BlockKey(id1)]
                 /\ Len(c.redis[HashKey(c.redis[BlockKey(id2)])]) = 2
                 /\ c.files = files
                 /\ Cursor(c.redis) = Cursor(redis)
    /\ "redis_client" \in attrs
       => allocated(redis)
            = Cardinality({k \in DOMAIN redis : k[1] = "hash:"})

\* Witness of C5: the latest call is a put_block that returned 0 without
\* taking a slot, two ids hold the same data and the same block record,
\* and the cursor has moved once.
DedupIdentityWitness ==
    /\ last.op = "put_block"
    /\ last.res = Return(0)
    /\ ~last.alloc
    /\ allocated(redis) = 1
    /\ \E id1, id2 \in Ids :
          /\ id1 # id2
          /\ okput[id1] # {}
          /\ okput[id1] = okput[id2]
          /\ redis[BlockKey(id1)] = redis[BlockKey(id2)]

\* C6 (unique placement, SpecConc), as claimed: callers that put different
\* content never hold the same (blob, blob_index) from the cursor, and no
\* two hashes have the same location.
UniquePlacement ==
    /\ \A p, q \in Procs :
          (/\ p # q
           /\ Placed(p)
           /\ Placed(q)
           /\ callers[p].block_hash # callers[q].block_hash)
          => <<callers[p].blob, callers[p].blob_index>>
                 # <<callers[q].blob, callers[q].blob_index>>
    /\ \A k1, k2 \in DOMAIN redis :
          (k1[1] = "hash:" /\ k2[1] = "hash:" /\ k1 # k2)
          => SubSeq(redis[k1], 1, 2) # SubSeq(redis[k2], 1, 2)

\* C7 (init type validation), as claimed: init returns 1 when either
\* argument has the wrong type and 0 when both have the right one.
InitValidatesTypes ==
    [][\A k1 \in IdKinds, k2 \in SizeKinds,
          size \in 1..MaxBlockSize, capacity \in 1..MaxBlobSize :
          init(k1, size, k2, capacity)
          => last'.res = (IF k1 = "uint64" /\ k2 = "uint32"
                          THEN Return(0) ELSE Return(1))]_vars

\* C8 (argument types of put_block and get_block), as claimed: on an
\* initialised manager, with an id that is not a uint64 or a buffer that is
\* not a bytearray the call returns 1, writes nothing and leaves the buffer
\* as it was.
ArgumentTypesValidated ==
    [][\A k1 \in IdKinds, k2 \in BufKinds, block_id \in Ids :
          ("redis_client" \in attrs /\ (k1 # "uint64" \/ k2 # "bytearray"))
          => /\ \A block_data \in ByteSeqs :
                  put_block(k1, block_id, k2, block_data)
                  => (/\ last'.res = Return(1)
                      /\ redis' = redis
                      /\ files' = files)
             /\ \A out \in OutSeqs :
                  get_block(k1, block_id, k2, out)
                  => (/\ last'.res = Return(1)
                      /\ last'.out = out)]_vars

\* C9 (init on a store that holds data), as claimed: an init that returns
\* 0 leaves every key of the database as it was.
InitKeepsStore ==
    [][(last'.op = "init" /\ last'.res = Return(0))
       => \A k \in DOMAIN redis :
             k \in DOMAIN redis' /\ redis'[k] = redis[k]]_vars

\* C10 (no exception crosses the boundary), as claimed: every call ends by
\* returning an integer, 0 or not.
NoExceptionEscapes ==
    last.res.exc = ""

\* C11 (placement order, SpecFill): in a sequential run from the empty
\* store, a put_block that returns 0 for content not stored yet, the k
\* contents stored before it being the k locations on record, records for
\* it the location (k div blob_size, k mod blob_size), appends the data to
\* that blob so that they lie at that slot, and moves the cursor to slot
\* k + 1; a put_block of content already stored adds no location and
\* leaves the cursor; and no put changes a location on record.
PlacementOrder ==
    [][\A block_id \in Ids, b \in 1..MaxContent :
          LET block_data == [i \in 1..block_size |-> b]
              h == HashKey(sha1(block_data))
              k == Cardinality(hashkeys(redis))
          IN  (/\ "block_size" \in attrs
               /\ put_block("uint64", block_id, "bytearray", block_data)
               /\ last'.res = Return(0))
              => /\ \A x \in hashkeys(redis) :
                       x \in DOMAIN redis' /\ redis'[x] = redis[x]
                 /\ hashkeys(redis') = hashkeys(redis) \cup {h}
                 /\ IF h \in hashkeys(redis)
                    THEN Cursor(redis') = Cursor(redis) /\ files' = files
                    ELSE /\ redis'[h] = <<k \div blob_size, k % blob_size>>
                         /\ read_at(files', k \div blob_size, block_size,
                                    k % blob_size) = block_data
                         /\ allocated(redis') = k + 1
                         /\ Cursor(redis')[2] < blob_size]_vars

\* Witness of C11: with two blocks to a blob, three contents are stored,
\* the third at (1, 0), and the latest call is a put_block of content
\* already stored, which left the cursor at (1, 1).
PlacementOrderWitness ==
    /\ blob_size = 2
    /\ Cardinality(hashkeys(redis)) = 3
    /\ \E x \in hashkeys(redis) : redis[x] = <<1, 0>>
    /\ \E x \in hashkeys(redis) : redis[x] = <<0, 1>>
    /\ Cursor(redis) = <<1, 1>>
    /\ last.op = "put_block"
    /\ last.res = Return(0)
    /\ ~last.alloc

\* C12 (init rejects sizes that are not positive, SpecZero), as claimed: an
\* init with arguments of the right types of which one is zero returns a
\* status other than 0 and leaves the configuration as it was, and the
\* manager is never configured with a zero block size or blob size.
InitRejectsZero ==
    [][\A size \in 0..MaxBlockSize, capacity \in 0..MaxBlobSize :
          (/\ init("uint64", size, "uint32", capacity)
           /\ (size = 0 \/ capacity = 0))
          => (/\ last'.res.exc = ""
              /\ last'.res.ret # 0
              /\ UNCHANGED <<attrs, block_size, blob_size>>
              /\ "block_size" \in attrs' => block_size' > 0
              /\ "blob_size" \in attrs' => blob_size' > 0)]_vars

\* Every caller is outside put_block.
AllReturned == \A p \in Procs : callers[p].pc \in {"idle", "done"}

\* Every content on record has one location, and no two have the same.
OneLocationEach ==
    /\ \A x \in hashkeys(redis) : Len(redis[x]) = 2
    /\ \A x, y \in hashkeys(redis) : x # y => redis[x] # redis[y]

\* The data of every put_block that has returned 0 lie at the location on
\* record for them.
ReturnedInPlace ==
    \A p \in Procs :
        (callers[p].pc = "done" /\ callers[p].res = Return(0))
        => LET loc == redis[HashKey(callers[p].block_hash)] IN
           /\ loc[1] \in DOMAIN files
           /\ read_at(files, loc[1], block_size, loc[2]) = callers[p].block_data

\* No two callers hold the same location from the cursor.
DistinctHeld ==
    \A p, q \in Procs :
        (p # q /\ Placed(p) /\ Placed(q))
        => <<callers[p].blob, callers[p].blob_index>>
               # <<callers[q].blob, callers[q].blob_index>>

\* C13 (blob content matches placement, SpecConc), as claimed: once all
\* concurrent put_block calls have returned, and even where every content
\* has one location of its own, the block_size bytes at the location on
\* record for the content a caller has put are the data it put.
BlobMatchesPlacement ==
    (AllReturned /\ OneLocationEach) => ReturnedInPlace

\* No two callers that have called put_block carry the same data.
DistinctContents ==
    \A p, q \in Procs :
        (p # q /\ callers[p].pc # "idle" /\ callers[q].pc # "idle")
        => callers[p].block_data # callers[q].block_data

\* C14 (reads only target written slots, SpecConc), as claimed: a
\* get_block that returns 0 while puts are under way has appended to the
\* buffer block_size bytes whose hash is the one in the block record;
\* even while the callers carry different data, no two hold the same
\* location and the data of those that have returned lie where they were
\* placed.
ReadsWrittenSlots ==
    [][\A block_id \in Ids :
          (/\ "redis_client" \in attrs
           /\ DistinctContents
           /\ DistinctHeld
           /\ ReturnedInPlace
           /\ get_block("uint64", block_id, "bytearray", <<>>)
           /\ last'.res = Return(0))
          => (/\ Len(last'.out) = block_size
              /\ sha1(last'.out) = redis[BlockKey(block_id)])]_vars

\* C15 (dedup is at most once under concurrency, SpecConc), as claimed: a
\* content has one location on record however many callers put it at the
\* same time, and once all have returned the cursor has moved once and one
\* block has been appended for each content on record; even while no two
\* callers hold the same location.
DedupAtMostOnce ==
    DistinctHeld
    =>
    /\ \A x \in hashkeys(redis) : Len(redis[x]) = 2
    /\ (AllReturned /\ "redis_client" \in attrs)
       => /\ allocated(redis) = Cardinality(hashkeys(redis))
          /\ \A b \in DOMAIN files :
                Len(files[b]) = block_size
                    * Cardinality({x \in hashkeys(redis) : redis[x][1] = b})

\* C16 (slot bound, SpecConc), as claimed: the slot index of the cursor
\* and of every location on record is below blob_size.
SlotBound ==
    "redis_client" \in attrs
    => /\ KeyNextBlobIndex \in DOMAIN redis
          => redis[KeyNextBlobIndex] < blob_size
       /\ \A x \in hashkeys(redis) :
             \A i \in 1..Len(redis[x]) : i % 2 = 0 => redis[x][i] < blob_size

\* a is not after b in lexicographic order.
LexLeq(a, b) == a[1] < b[1] \/ (a[1] = b[1] /\ a[2] <= b[2])

\* C17 (cursor monotonicity, Spec), as claimed: once the cursor exists, no
\* call moves it back in lexicographic order, and a location recorded by a
\* call is none of the locations on record before it.
CursorMonotonic ==
    [][Cursor(redis) # <<>>
       => /\ Cursor(redis') # <<>>
          /\ LexLeq(Cursor(redis), Cursor(redis'))
          /\ \A x \in hashkeys(redis') \ hashkeys(redis) :
                \A y \in hashkeys(redis) : redis'[x] # redis[y]]_vars

\* C18 (failed puts are all-or-nothing, Spec), as claimed: a put_block
\* that does not return 0 leaves the database (block records, hash set,
\* locations, cursor) as it was, and a block record exists only for an id
\* under which a put_block has returned 0.
FailedPutChangesNothing ==
    [][\A k1 \in IdKinds, block_id \in Ids, k2 \in BufKinds,
          block_data \in ByteSeqs :
          (/\ put_block(k1, block_id, k2, block_data)
           /\ last'.res # Return(0))
          => (/\ redis' = redis
              /\ \A i \in Ids :
                    exists(redis', BlockKey(i)) => okput'[i] # {})]_vars

\* C19 (index consistency, SpecConc), as claimed: in every state between
\* two steps, the hash of every block record is in 'hashes' and has one
\* location, and every hash in 'hashes' has a location.
IndexConsistent ==
    /\ \A block_id \in Ids :
          exists(redis, BlockKey(block_id))
          => LET h == redis[BlockKey(block_id)] IN
             /\ sismember(redis, KeyHashes, h)
             /\ exists(redis, HashKey(h))
             /\ Len(redis[HashKey(h)]) = 2
    /\ exists(redis, KeyHashes)
       => \A h \in redis[KeyHashes] : exists(redis, HashKey(h))

\* C20 (the allocation retry, SpecConc), as claimed: a caller that comes to
\* the cursor update of its transaction after another caller has changed
\* the cursor it read runs the transaction again from the reads.
RetriesOnConflict ==
    [][\A p \in Procs :
          (/\ callers[p].pc \in {"incr_next_blob", "incr_next_blob_index"}
           /\ callers'[p].pc # callers[p].pc
           /\ Cursor(redis) # <<callers[p].blob, callers[p].blob_index>>)
          => callers'[p].pc = "get_next_blob"]_vars

\* The part of C20 the code keeps (FairConc): every caller that has called
\* put_block returns.
PutBlockReturns ==
    \A p \in Procs : callers[p].pc # "idle" ~> callers[p].pc = "done"

====
